---- MODULE Spec2Model ----
(***************************************************************************)
(* Anomaly-detection engine of ArduML: the batch analysis route            *)
(* (GET /api/anomalies), the live single-reading check                     *)
(* (checkRealtimeAnomaly with its statistics cache), the cron scan         *)
(* (GET /api/cron) and the ingest route (POST /api/ingest).                *)
(*                                                                         *)
(* Numbers.  Sensor values are multiples of half a unit (0.5 degree,       *)
(* 0.5 percent) and are written as integers in half units: 24.0 is 48.     *)
(* Such values are exact in IEEE doubles, so sums, differences and the     *)
(* rate-of-change comparisons are exact in the program too.  Mean and      *)
(* standard deviation are kept as the exact sufficient statistics          *)
(* (n, sum, sumsq):  mean = sum / n,  std = sqrt(n*sumsq - sum^2) / n,     *)
(* and every comparison of a z-score is made by cross-multiplication.      *)
(* The sensor is a DHT11: values are never negative.                       *)
(***************************************************************************)
EXTENDS Integers, Sequences, FiniteSets, TLC

-----------------------------------------------------------------------------
(* Program constants (half units where a unit applies)                     *)

ZSCORE_THRESHOLD == 3

TEMP_RATE_THRESHOLD == 4

HUMIDITY_RATE_THRESHOLD == 10

WINDOW_SIZE == 500

MIN_STD_TEMP == 1

MIN_STD_HUMIDITY == 4

\* values.length < 10 : the minimum sample count of the batch z-score detector
MIN_SAMPLES == 10

\* readings.slice(0, 10) : readings kept in the cache for rate detection
RECENT_KEEP == 10

\* deduped.slice(0, 50)
RESULT_CAP == 50

\* .limit(20) on anomaly_logs
LOGGED_LIMIT == 20

\* highSeverity.slice(0, 10)
CRON_LOG_CAP == 10

\* parseInt(searchParams.get('limit') || '500')
DEFAULT_LIMIT == 500

-----------------------------------------------------------------------------
(* Bounds of the model                                                     *)

\* longest run of the baseline reading in the initial reading store
MaxRunA == 17

\* longest run of each of the two readings of a two-level initial store
MaxRunB == 5

\* longest run of readings without temperature in the initial store
MaxNulls == 10

\* longest second run after a baseline run or a run without temperature
MaxTail == 1

\* readings ingested on top of the initial store
MaxIngest == 1

\* rows anomaly_logs can take
MaxLogRows == 4

\* longest initial reading store of SpecLogged
MaxMixedLen == 2

\* longest initial reading store of SpecAsync
MaxAsyncLen == 2

\* latest value of the clock, in units of 5 minutes
MaxClock == 3

-----------------------------------------------------------------------------
(* Values: a metric of a reading is null or a number.  Null is <<>>, the   *)
(* number v is <<v>>.  The same holds for every nullable field.           *)

Null == <<>>

Some(v) == <<v>>

IsNull(x) == x = <<>>

Val(x) == x[1]

Abs(x) == IF x < 0 THEN -x ELSE x

Max2(a, b) == IF a >= b THEN a ELSE b

Metrics == {"temperature", "humidity"}

\* the elements of seq whose index satisfies Keep, in order
FilterIdx(seq, Keep(_)) ==
    LET F[i \in 0..Len(seq)] ==
            IF i = 0 THEN <<>>
            ELSE IF Keep(i) THEN Append(F[i - 1], seq[i]) ELSE F[i - 1]
    IN  F[Len(seq)]

Reverse(seq) == [i \in 1..Len(seq) |-> seq[Len(seq) + 1 - i]]

\* Array.prototype.slice(0, k)
Take(seq, k) == SubSeq(seq, 1, IF Len(seq) < k THEN Len(seq) ELSE k)

Concat4(a, b, c, d) == a \o b \o c \o d


-----------------------------------------------------------------------------
(* Statistics                                                              *)

SumSeq(values) ==
    LET F[i \in 0..Len(values)] == IF i = 0 THEN 0 ELSE F[i - 1] + values[i]
    IN  F[Len(values)]

SumSqSeq(values) ==
    LET F[i \in 0..Len(values)] ==
            IF i = 0 THEN 0 ELSE F[i - 1] + values[i] * values[i]
    IN  F[Len(values)]

MinSeq(values) ==
    LET S == {values[i] : i \in 1..Len(values)}
    IN  CHOOSE v \in S : \A w \in S : v <= w

MaxSeq(values) ==
    LET S == {values[i] : i \in 1..Len(values)}
    IN  CHOOSE v \in S : \A w \in S : v >= w

\* A Stats object.  mean = sum / n and std = sqrt(n*sumsq - sum^2) / n; the
\* empty sample gives the all-zero Stats (mean 0, std 0, min 0, max 0).
ZeroStats == [n |-> 0, sum |-> 0, sumsq |-> 0, min |-> 0, max |-> 0]

\* calculateStats of the live detector (lib/anomalyDetector.ts)
calculateStats(values) ==
    IF Len(values) = 0 THEN ZeroStats
    ELSE [n |-> Len(values), sum |-> SumSeq(values), sumsq |-> SumSqSeq(values),
          min |-> MinSeq(values), max |-> MaxSeq(values)]

\* calculateStats of the batch route (q1 and q3 are computed there and never
\* read)
calculateStatsBatch(values) ==
    IF Len(values) = 0 THEN ZeroStats
    ELSE [n |-> Len(values), sum |-> SumSeq(values), sumsq |-> SumSqSeq(values),
          min |-> MinSeq(values), max |-> MaxSeq(values)]

\* stats.mean = 0
MeanIsZero(st) == st.n = 0 \/ st.sum = 0

\* (n * std)^2
VarN2(st) == st.n * st.sumsq - st.sum * st.sum

\* stats.std = 0
StdIsZero(st) == st.n = 0 \/ VarN2(st) = 0

\* n * |value - mean|
DevN(v, st) == Abs(st.n * v - st.sum)

\* ZGreater with the comparison written >= instead of >
ZGreaterOrEqual(v, st, a, b) ==
    b * b * DevN(v, st) * DevN(v, st) >= a * a * VarN2(st)

\* |value - mean| / std > a / b, for a Stats with n > 0 and std > 0
ZGreater(v, st, a, b) == b * b * DevN(v, st) * DevN(v, st) > a * a * VarN2(st)

\* zscore > 4 ? 'high' : zscore > 3.5 ? 'medium' : 'low'
ZSeverity(v, st) ==
    IF ZGreater(v, st, 4, 1) THEN "high"
    ELSE IF ZGreater(v, st, 7, 2) THEN "medium" ELSE "low"

-----------------------------------------------------------------------------
(* Batch detectors (GET /api/anomalies)                                    *)

\* MetricValues without the filter: a null stays in the sample and counts as
\* 0 in the arithmetic
MetricValuesUnfiltered(data, metric) ==
    [i \in 1..Len(data) |->
        IF IsNull(data[i][metric]) THEN 0 ELSE Val(data[i][metric])]

\* data.map(r => r[metric]).filter(v => v !== null)
MetricValues(data, metric) ==
    LET present == SelectSeq(data, LAMBDA r : ~IsNull(r[metric]))
    IN  [i \in 1..Len(present) |-> Val(present[i][metric])]

\* the z-score of a value as the program holds it before rounding:
\* num / sqrt(den2)
ZScoreOf(v, st) == [num |-> DevN(v, st), den2 |-> VarN2(st)]

\* ZScoreApplies without the early return on std = 0
ZScoreAppliesAnyStd(values, stats) == ~(Len(values) < MIN_SAMPLES)

\* neither early return of detectZScoreAnomalies is taken
ZScoreApplies(values, stats) ==
    /\ ~(Len(values) < MIN_SAMPLES)
    /\ ~StdIsZero(stats)

detectZScoreAnomalies(data, metric) ==
    LET values == MetricValues(data, metric)
        stats  == calculateStatsBatch(values)
        Flag(i) == /\ ~IsNull(data[i][metric])
                   /\ ZGreater(Val(data[i][metric]), stats, ZSCORE_THRESHOLD, 1)
        hits   == FilterIdx(data, Flag)
    IN  IF ~ZScoreApplies(values, stats) THEN <<>>
        ELSE [k \in 1..Len(hits) |->
                [id |-> hits[k].id,
                 timestamp |-> hits[k].created_at,
                 metric |-> metric,
                 value |-> Val(hits[k][metric]),
                 deviation |-> ZScoreOf(Val(hits[k][metric]), stats),
                 detectionMethod |-> "zscore",
                 severity |-> ZSeverity(Val(hits[k][metric]), stats)]]

\* RateThreshold with the temperature threshold used for both metrics
RateThresholdOfTemperature(metric) == TEMP_RATE_THRESHOLD

RateThreshold(metric) ==
    IF metric = "temperature" THEN TEMP_RATE_THRESHOLD ELSE HUMIDITY_RATE_THRESHOLD

\* change > threshold * 2 ? 'high' : change > threshold * 1.5 ? 'medium' : 'low'
RateSeverity(change, threshold) ==
    IF change > threshold * 2 THEN "high"
    ELSE IF 2 * change > threshold * 3 THEN "medium" ELSE "low"

\* InitialPrev with 0 in the place of null
InitialPrevZero == Some(0)

\* let prevValue: number | null = null
InitialPrev == Null

detectRateAnomalies(data, metric) ==
    LET threshold == RateThreshold(metric)
        \* the loop: prev is prevValue, out the anomalies pushed so far
        F[i \in 0..Len(data)] ==
            IF i = 0 THEN [prev |-> InitialPrev, out |-> <<>>]
            ELSE LET value == data[i][metric]
                     st    == F[i - 1]
                 IN  IF IsNull(value) THEN st
                     ELSE IF IsNull(st.prev) THEN [prev |-> value, out |-> st.out]
                     ELSE LET change == Abs(Val(value) - Val(st.prev))
                          IN  IF change > threshold
                              THEN [prev |-> value,
                                    out  |-> Append(st.out,
                                       [id |-> data[i].id,
                                        timestamp |-> data[i].created_at,
                                        metric |-> metric,
                                        value |-> Val(value),
                                        expectedRange |-> <<Val(st.prev) - threshold,
                                                            Val(st.prev) + threshold>>,
                                        deviation |-> change,
                                        detectionMethod |-> "rate_of_change",
                                        severity |-> RateSeverity(change, threshold)])]
                              ELSE [prev |-> value, out |-> st.out]
    IN  F[Len(data)].out

\* the divisors of the divisions `Math.abs(value - stats.mean) / stats.std`
\* that detectZScoreAnomalies evaluates: one per non-null reading of the loop
BatchZDivisors(data, metric) ==
    LET values == MetricValues(data, metric)
        stats  == calculateStatsBatch(values)
    IN  IF ~ZScoreApplies(values, stats) THEN {}
        ELSE {[path |-> "batch", metric |-> metric, zero |-> StdIsZero(stats)] :
                 i \in {j \in 1..Len(data) : ~IsNull(data[j][metric])}}

-----------------------------------------------------------------------------
(* Live detector (lib/anomalyDetector.ts)                                  *)

\* the statsCache before any refresh
EmptyCache ==
    [temperature |-> Null, humidity |-> Null, lastUpdated |-> Null,
     recentReadings |-> <<>>]

\* CacheValues without the filter: a null stays in the sample as 0
CacheValuesUnfiltered(readings, metric) ==
    [i \in 1..Len(readings) |->
        IF IsNull(readings[i][metric]) THEN 0 ELSE Val(readings[i][metric])]

\* readings.map(r => r[metric]).filter(v => v !== null && v !== 0)
CacheValues(readings, metric) ==
    LET Keep(r) == /\ ~IsNull(r[metric])
                   /\ Val(r[metric]) # 0
        present == SelectSeq(readings, Keep)
    IN  [i \in 1..Len(present) |-> Val(present[i][metric])]

\* RefreshedCache with the humidity Stats of the window before its newest
\* reading
RefreshedCacheMixed(readings, at) ==
    [temperature |-> Some(calculateStats(CacheValues(readings, "temperature"))),
     humidity |-> Some(calculateStats(CacheValues(
                     IF Len(readings) = 0 THEN readings ELSE Tail(readings),
                     "humidity"))),
     lastUpdated |-> Some(at),
     recentReadings |-> Take(readings, RECENT_KEEP)]

\* the statsCache that refreshStatsCache publishes for the fetched readings
\* (newest first) at time `at`
RefreshedCache(readings, at) ==
    [temperature |-> Some(calculateStats(CacheValues(readings, "temperature"))),
     humidity |-> Some(calculateStats(CacheValues(readings, "humidity"))),
     lastUpdated |-> Some(at),
     recentReadings |-> Take(readings, RECENT_KEEP)]

MinStd(metric) == IF metric = "temperature" THEN MIN_STD_TEMP ELSE MIN_STD_HUMIDITY
\* EffVarN2 without the floor: the stored std is the divisor
EffVarN2Stored(st, minStd) == VarN2(st)

\* (n * effectiveStd)^2 with effectiveStd = Math.max(stats.std, minStd)
EffVarN2(st, minStd) == Max2(VarN2(st), minStd * minStd * st.n * st.n)

\* |value - mean| / Math.max(std, minStd) > a / b; for the all-zero Stats the
\* mean is 0 and the divisor is minStd
ZGreaterEff(v, st, minStd, a, b) ==
    IF st.n = 0 THEN b * v > a * minStd
    ELSE b * b * DevN(v, st) * DevN(v, st) > a * a * EffVarN2(st, minStd)

\* ZSeverityEff with the grade high given from 4.0 on (>= instead of >)
ZSeverityEffFromFour(v, st, minStd) ==
    IF ~ZGreaterEff(v, st, minStd, 7, 2) THEN "low"
    ELSE IF st.n > 0 /\ DevN(v, st) * DevN(v, st) >= 16 * EffVarN2(st, minStd)
         THEN "high" ELSE "medium"

ZSeverityEff(v, st, minStd) ==
    IF ZGreaterEff(v, st, minStd, 4, 1) THEN "high"
    ELSE IF ZGreaterEff(v, st, minStd, 7, 2) THEN "medium" ELSE "low"
\* LiveZApplies without the test of the mean
LiveZAppliesAnyMean(cache, metric) == ~IsNull(cache[metric])

\* statsCache[metric] && statsCache[metric].mean !== 0
LiveZApplies(cache, metric) ==
    /\ ~IsNull(cache[metric])
    /\ ~MeanIsZero(Val(cache[metric]))

\* the z-score check of checkRealtimeAnomaly for one metric
LiveZScore(cache, metric, value, now) ==
    IF ~LiveZApplies(cache, metric) THEN <<>>
    ELSE LET st == Val(cache[metric])
         IN  IF ZGreaterEff(value, st, MinStd(metric), ZSCORE_THRESHOLD, 1)
             THEN << [id |-> 0,
                      timestamp |-> now,
                      metric |-> metric,
                      value |-> value,
                      deviation |-> [num |-> DevN(value, st),
                                     den2 |-> EffVarN2(st, MinStd(metric))],
                      detectionMethod |-> "realtime",
                      severity |-> ZSeverityEff(value, st, MinStd(metric))] >>
             ELSE <<>>

\* lastReading[metric] !== null && lastReading[metric] !== 0
LiveRateApplies(cache, metric) ==
    /\ Len(cache.recentReadings) > 0
    /\ ~IsNull(cache.recentReadings[1][metric])
    /\ Val(cache.recentReadings[1][metric]) # 0

\* the rate-of-change check of checkRealtimeAnomaly for one metric
LiveRate(cache, metric, value, now) ==
    IF ~LiveRateApplies(cache, metric) THEN <<>>
    ELSE LET last      == Val(cache.recentReadings[1][metric])
             threshold == RateThreshold(metric)
             change    == Abs(value - last)
         IN  IF change > threshold
             THEN << [id |-> 0,
                      timestamp |-> now,
                      metric |-> metric,
                      value |-> value,
                      expectedRange |-> <<last - threshold, last + threshold>>,
                      deviation |-> change,
                      detectionMethod |-> "rate_of_change",
                      severity |-> RateSeverity(change, threshold)] >>
             ELSE <<>>

\* the anomalies checkRealtimeAnomaly collects against the cache
LiveDetect(cache, temperature, humidity, now) ==
    Concat4(LiveZScore(cache, "temperature", temperature, now),
            LiveZScore(cache, "humidity", humidity, now),
            LiveRate(cache, "temperature", temperature, now),
            LiveRate(cache, "humidity", humidity, now))

\* the divisors of the divisions by effectiveStd that the live check evaluates
LiveZDivisors(cache) ==
    {[path |-> "live", metric |-> m,
      zero |-> StdIsZero(Val(cache[m])) /\ MinStd(m) = 0] :
        m \in {k \in Metrics : LiveZApplies(cache, k)}}
\* CacheAfterCheck with the checked reading put in front of the cached
\* readings
CacheAfterCheckWithReading(cache, temperature, humidity, now) ==
    [cache EXCEPT !.recentReadings =
        Take(<< [id |-> 0, temperature |-> Some(temperature),
                 humidity |-> Some(humidity), created_at |-> now] >>
             \o cache.recentReadings, RECENT_KEEP)]

\* the statsCache after the checks of checkRealtimeAnomaly: they read it and
\* assign nothing
CacheAfterCheck(cache, temperature, humidity, now) == cache

\* LiveReturn with nothing returned when the insert failed
LiveReturnUnlessLogFailed(anomalies, logOk) == IF logOk THEN anomalies ELSE <<>>

\* `return anomalies` after logAnomalies, which catches the error of the
\* insert and warns
LiveReturn(anomalies, logOk) == anomalies

\* LogRecords with only the first anomaly forwarded
LogRecordsOfFirst(anomalies) ==
    [i \in 1..1 |->
        [metric |-> anomalies[i].metric,
         value |-> anomalies[i].value,
         deviation |-> anomalies[i].deviation,
         severity |-> anomalies[i].severity,
         detection_method |-> anomalies[i].detectionMethod,
         detected_at |-> anomalies[i].timestamp]]

\* the rows logAnomalies inserts into anomaly_logs
LogRecords(anomalies) ==
    [i \in 1..Len(anomalies) |->
        [metric |-> anomalies[i].metric,
         value |-> anomalies[i].value,
         deviation |-> anomalies[i].deviation,
         severity |-> anomalies[i].severity,
         detection_method |-> anomalies[i].detectionMethod,
         detected_at |-> anomalies[i].timestamp]]

-----------------------------------------------------------------------------
(* Cron scan (GET /api/cron)                                               *)

\* mean and std of the cron scan; an empty sample gives 0/0 = NaN for both
CronStats(values) ==
    [nan |-> Len(values) = 0, n |-> Len(values),
     sum |-> SumSeq(values), sumsq |-> SumSqSeq(values)]

\* tempStd > 0 (false for NaN)
CronStdPositive(st) == ~st.nan /\ VarN2(st) > 0

\* reading[metric] !== null && std > 0
CronZApplies(reading, metric, st) ==
    /\ ~IsNull(reading[metric])
    /\ CronStdPositive(st)

\* the anomalies one reading contributes for one metric
CronZScore(reading, metric, st) ==
    IF /\ CronZApplies(reading, metric, st)
       /\ ZGreater(Val(reading[metric]), st, ZSCORE_THRESHOLD, 1)
    THEN << [id |-> reading.id,
             timestamp |-> reading.created_at,
             metric |-> metric,
             value |-> Val(reading[metric]),
             zscore |-> ZScoreOf(Val(reading[metric]), st),
             severity |-> ZSeverity(Val(reading[metric]), st)] >>
    ELSE <<>>

\* the loop over the fetched readings (newest first), temperature before
\* humidity for each reading
CronDetect(readings) ==
    LET tempStats  == CronStats(MetricValues(readings, "temperature"))
        humidStats == CronStats(MetricValues(readings, "humidity"))
        F[i \in 0..Len(readings)] ==
            IF i = 0 THEN <<>>
            ELSE F[i - 1] \o CronZScore(readings[i], "temperature", tempStats)
                          \o CronZScore(readings[i], "humidity", humidStats)
    IN  F[Len(readings)]

\* the divisors of the divisions by tempStd and humidStd in the cron loop
CronZDivisors(readings) ==
    {[path |-> "cron", metric |-> m,
      zero |-> ~CronStdPositive(CronStats(MetricValues(readings, m)))] :
        m \in {k \in Metrics :
                 \E i \in 1..Len(readings) :
                    CronZApplies(readings[i], k, CronStats(MetricValues(readings, k)))}}

\* HighSeverity without the filter
AnySeverity(anomalies) == anomalies

\* anomalies.filter(a => a.severity === 'high')
HighSeverity(anomalies) == SelectSeq(anomalies, LAMBDA a : a.severity = "high")

\* the rows the cron scan inserts into anomaly_logs
CronRecords(highSeverity, now) ==
    LET top == Take(highSeverity, CRON_LOG_CAP)
    IN  [i \in 1..Len(top) |->
            [metric |-> top[i].metric,
             value |-> top[i].value,
             deviation |-> top[i].zscore,
             severity |-> top[i].severity,
             detection_method |-> "cron_batch",
             detected_at |-> now]]

-----------------------------------------------------------------------------
(* Batch analysis (GET /api/anomalies): deduplication, sort, summary       *)

\* filter with a Set of seen keys: the first element of every key is kept
DedupBy(seq, Key(_)) ==
    FilterIdx(seq, LAMBDA i : \A j \in 1..(i - 1) : Key(seq[j]) # Key(seq[i]))

\* `${a.id}-${a.detectionMethod}`
MethodKey(a) == <<a.id, a.detectionMethod>>

\* `${a.id}-${a.timestamp}`
TimestampKey(a) == <<a.id, a.timestamp>>
\* SortNewestFirst with an element placed before the elements of its own
\* timestamp
SortNewestFirstUnstable(seq) ==
    LET Insert(sorted, x) ==
            LET before == SelectSeq(sorted, LAMBDA y : y.timestamp > x.timestamp)
                after  == SelectSeq(sorted, LAMBDA y : y.timestamp <= x.timestamp)
            IN  before \o <<x>> \o after
        F[i \in 0..Len(seq)] == IF i = 0 THEN <<>> ELSE Insert(F[i - 1], seq[i])
    IN  F[Len(seq)]

\* Array.prototype.sort with (a, b) => time(b) - time(a): newest first, and
\* stable, so elements of equal timestamp keep their order
SortNewestFirst(seq) ==
    LET Insert(sorted, x) ==
            LET before == SelectSeq(sorted, LAMBDA y : y.timestamp >= x.timestamp)
                after  == SelectSeq(sorted, LAMBDA y : y.timestamp < x.timestamp)
            IN  before \o <<x>> \o after
        F[i \in 0..Len(seq)] == IF i = 0 THEN <<>> ELSE Insert(F[i - 1], seq[i])
    IN  F[Len(seq)]

CountIf(seq, P(_)) == Cardinality({i \in 1..Len(seq) : P(seq[i])})

\* the allAnomalies array: the four detector calls in their order
AllAnomalies(data) ==
    Concat4(detectZScoreAnomalies(data, "temperature"),
            detectZScoreAnomalies(data, "humidity"),
            detectRateAnomalies(data, "temperature"),
            detectRateAnomalies(data, "humidity"))

\* the uniqueAnomalies array after its sort
UniqueAnomalies(allAnomalies) == SortNewestFirst(DedupBy(allAnomalies, MethodKey))

\* the anomalies of the response: logged ones first, second deduplication,
\* the first RESULT_CAP
ReturnedAnomalies(loggedAnomalies, uniqueAnomalies) ==
    Take(DedupBy(loggedAnomalies \o uniqueAnomalies, TimestampKey), RESULT_CAP)

\* the counts of the summary
Summary(data, uniqueAnomalies) ==
    [dataPointsAnalyzed |-> Len(data),
     statistics |->
        [temperature |-> calculateStatsBatch(MetricValues(data, "temperature")),
         humidity |-> calculateStatsBatch(MetricValues(data, "humidity"))],
     totalAnomalies |-> Len(uniqueAnomalies),
     bySeverity |->
        [high |-> CountIf(uniqueAnomalies, LAMBDA a : a.severity = "high"),
         medium |-> CountIf(uniqueAnomalies, LAMBDA a : a.severity = "medium"),
         low |-> CountIf(uniqueAnomalies, LAMBDA a : a.severity = "low")],
     byMetric |->
        [temperature |-> CountIf(uniqueAnomalies, LAMBDA a : a.metric = "temperature"),
         humidity |-> CountIf(uniqueAnomalies, LAMBDA a : a.metric = "humidity")],
     byMethod |->
        [zscore |-> CountIf(uniqueAnomalies, LAMBDA a : a.detectionMethod = "zscore"),
         rateOfChange |->
            CountIf(uniqueAnomalies, LAMBDA a : a.detectionMethod = "rate_of_change")]]

\* the unacknowledged rows of anomaly_logs, newest first, at most
\* LOGGED_LIMIT, as Anomaly objects
LoggedAnomalies(rows) ==
    LET asAnomaly == [i \in 1..Len(rows) |->
                        [id |-> rows[i].id,
                         timestamp |-> rows[i].detected_at,
                         metric |-> rows[i].metric,
                         value |-> rows[i].value,
                         expectedRange |-> <<0, 0>>,
                         deviation |-> rows[i].deviation,
                         detectionMethod |-> rows[i].detection_method,
                         severity |-> rows[i].severity]]
    IN  Take(SortNewestFirst(asAnomaly), LOGGED_LIMIT)

-----------------------------------------------------------------------------
(* State                                                                   *)

VARIABLES
    store,       \* table sensor_readings, oldest first
    nIngest,     \* rows inserted by POST /api/ingest since the initial state
    logs,        \* table anomaly_logs, oldest first
    statsCache,  \* the module-level statsCache of lib/anomalyDetector.ts
    clock,       \* Date.now(), in units of the cache's maximum age (5 minutes)
    resp,        \* what the last handler returned, with what it read
    calls        \* the calls suspended at an await, with their local variables

vars == <<store, nIngest, logs, statsCache, clock, resp, calls>>

\* no call of checkRealtimeAnomaly and none of the cron handler is suspended
NoCalls == [live |-> [pc |-> "idle"], cron |-> [pc |-> "idle"]]

\* no response is waiting to be delivered
NoResp == [op |-> "none"]

\* 5 * 60 * 1000 ms, in units of 5 minutes
MAX_AGE == 1

R(t, h) == [temperature |-> t, humidity |-> h]

\* the initial stores: a run of one reading followed by a run of another,
\* as <<first reading, second reading, longest first run, longest second run>>
HistoryShapes ==
    { <<R(Some(48), Some(100)), R(Null, Some(100)), MaxRunA, MaxTail>>,
      <<R(Some(46), Some(100)), R(Some(50), Some(100)), MaxRunB, MaxRunB>>,
      <<R(Null, Some(100)), R(Some(48), Some(100)), MaxNulls, MaxTail>> }

\* the readings POST /api/ingest is called with
IngestReadings ==
    { R(Some(68), Some(140)), R(Some(56), Some(100)), R(Some(51), Some(100)),
      R(Some(0), Some(100)) }

\* the (temperature, humidity) checkRealtimeAnomaly is called with
LiveInputs ==
    {<<t, 100>> : t \in {51, 53, 54, 55, 56, 64}}
        \cup {<<48, h>> : h \in {110, 112, 113, 115, 116, 120, 121}}
        \cup {<<64, 121>>}

\* the limit parameter of GET /api/anomalies
BatchLimits == {DEFAULT_LIMIT, MIN_SAMPLES}

\* sensor_readings rows: id is the serial key and created_at the insertion
\* time; the rows of the table are 2 time units apart
Row(i, r) ==
    [id |-> i, temperature |-> r.temperature, humidity |-> r.humidity,
     created_at |-> 2 * i]

\* new Date().toISOString() in a handler: later than every stored reading and
\* earlier than the next one
NowStamp(rows) == 2 * Len(rows) + 1

History(shape, k, m) ==
    [i \in 1..(k + m) |-> Row(i, IF i <= k THEN shape[1] ELSE shape[2])]

\* .order('created_at', { ascending: false }).limit(limit)
FetchRecent(rows, limit) == Take(Reverse(rows), limit)

Init ==
    /\ \E shape \in HistoryShapes :
          \E k \in 0..shape[3], m \in 0..shape[4] : store = History(shape, k, m)
    /\ nIngest = 0
    /\ logs = <<>>
    /\ statsCache = EmptyCache
    /\ clock = 0
    /\ resp = NoResp
    /\ calls = NoCalls

-----------------------------------------------------------------------------
(* Handlers                                                                *)

\* anomaly_logs after insert(records); id is the serial key
InsertLogs(rows, records) ==
    rows \o [i \in 1..Len(records) |->
                [id |-> Len(rows) + i,
                 metric |-> records[i].metric,
                 value |-> records[i].value,
                 deviation |-> records[i].deviation,
                 severity |-> records[i].severity,
                 detection_method |-> records[i].detection_method,
                 detected_at |-> records[i].detected_at]]

\* POST /api/ingest.  complete: the body has temperature and humidity;
\* dbOk: the insert succeeds
Ingest(r, complete, dbOk) ==
    /\ resp = NoResp
    /\ nIngest < MaxIngest
    /\ IF ~complete
       THEN /\ resp' = [op |-> "ingest", status |-> 400, liveChecks |-> <<>>]
            /\ UNCHANGED <<store, nIngest>>
       ELSE IF ~dbOk
       THEN /\ resp' = [op |-> "ingest", status |-> 500, liveChecks |-> <<>>]
            /\ UNCHANGED <<store, nIngest>>
       ELSE /\ store' = Append(store, Row(Len(store) + 1, r))
            /\ nIngest' = nIngest + 1
            /\ resp' = [op |-> "ingest", status |-> 200,
                        reading |-> r,
                        \* the calls of checkRealtimeAnomaly the handler made
                        liveChecks |-> <<>>]
    /\ UNCHANGED <<logs, statsCache, clock, calls>>

\* GET /api/anomalies?limit=..&logged=..
BatchGET(limit, includeLogged, fetchOk) ==
    /\ resp = NoResp
    /\ IF ~fetchOk
       THEN resp' = [op |-> "batch", status |-> 500]
       ELSE LET data   == FetchRecent(store, limit)
                logged == IF includeLogged THEN LoggedAnomalies(logs) ELSE <<>>
            IN  IF Len(data) = 0
                THEN resp' = [op |-> "batch", status |-> 200,
                              includeLogged |-> includeLogged,
                              data |-> <<>>, all |-> <<>>, unique |-> <<>>,
                              anomalies |-> <<>>, zDivisors |-> {},
                              summary |-> [dataPointsAnalyzed |-> 0,
                                           totalAnomalies |-> 0]]
                ELSE LET chronologicalData == Reverse(data)
                         all    == AllAnomalies(chronologicalData)
                         unique == UniqueAnomalies(all)
                     IN  resp' = [op |-> "batch", status |-> 200,
                                  includeLogged |-> includeLogged,
                                  data |-> chronologicalData,
                                  all |-> all,
                                  unique |-> unique,
                                  anomalies |-> ReturnedAnomalies(logged, unique),
                                  zDivisors |->
                                     BatchZDivisors(chronologicalData, "temperature")
                                       \cup BatchZDivisors(chronologicalData, "humidity"),
                                  summary |-> Summary(chronologicalData, unique)]
    /\ UNCHANGED <<store, nIngest, logs, statsCache, clock, calls>>
\* Refreshed with lastUpdated set also when the fetch fails
RefreshedStamped(cache, rows, fetchOk, at) ==
    IF ~fetchOk THEN [cache EXCEPT !.lastUpdated = Some(at)]
    ELSE RefreshedCache(FetchRecent(rows, WINDOW_SIZE), at)

\* Refreshed with the cache cleared when the fetch fails
RefreshedOrCleared(cache, rows, fetchOk, at) ==
    IF ~fetchOk THEN EmptyCache
    ELSE RefreshedCache(FetchRecent(rows, WINDOW_SIZE), at)

\* refreshStatsCache: the cache after the call
Refreshed(cache, rows, fetchOk, at) ==
    IF ~fetchOk THEN cache
    ELSE RefreshedCache(FetchRecent(rows, WINDOW_SIZE), at)

\* IsStale with a cache of exactly 5 minutes counted as stale
IsStaleFromFiveMinutes(cache, at) ==
    \/ IsNull(cache.lastUpdated)
    \/ at - Val(cache.lastUpdated) >= MAX_AGE

\* !statsCache.lastUpdated || Date.now() - lastUpdated > 5 * 60 * 1000
IsStale(cache, at) ==
    \/ IsNull(cache.lastUpdated)
    \/ at - Val(cache.lastUpdated) > MAX_AGE

\* checkRealtimeAnomaly(temperature, humidity).  fetchOk: the fetch of a
\* refresh succeeds; logOk: the insert into anomaly_logs succeeds
LiveCheck(temperature, humidity, fetchOk, logOk) ==
    LET stale     == IsStale(statsCache, clock)
        cache     == IF stale THEN Refreshed(statsCache, store, fetchOk, clock)
                     ELSE statsCache
        anomalies == LiveDetect(cache, temperature, humidity, NowStamp(store))
        records   == LogRecords(anomalies)
        inserted  == Len(anomalies) > 0 /\ logOk
    IN  /\ resp = NoResp
        \* an outcome is drawn only for a call that is made
        /\ fetchOk \in (IF stale THEN BOOLEAN ELSE {TRUE})
        /\ logOk \in (IF Len(anomalies) > 0 THEN BOOLEAN ELSE {FALSE})
        /\ inserted => Len(logs) + Len(records) <= MaxLogRows
        /\ statsCache' = CacheAfterCheck(cache, temperature, humidity, NowStamp(store))
        /\ logs' = IF inserted THEN InsertLogs(logs, records) ELSE logs
        /\ resp' = [op |-> "live",
                    temperature |-> temperature, humidity |-> humidity,
                    refreshed |-> stale, fetchOk |-> fetchOk,
                    \* the fetches from sensor_readings the call made
                    fetches |-> IF stale THEN 1 ELSE 0,
                    cache |-> cache,
                    anomalies |-> LiveReturn(anomalies, logOk),
                    zDivisors |-> LiveZDivisors(cache),
                    logCalls |-> IF Len(anomalies) > 0 THEN <<records>> ELSE <<>>,
                    logOk |-> logOk]
        /\ UNCHANGED <<store, nIngest, clock, calls>>

\* GET /api/cron.  refreshOk: the fetch of refreshStatsCache succeeds;
\* fetchOk: the handler's own fetch succeeds; logOk: the insert succeeds
CronGET(refreshOk, fetchOk, logOk) ==
    LET cache    == Refreshed(statsCache, store, refreshOk, clock)
        readings == FetchRecent(store, WINDOW_SIZE)
        found    == CronDetect(readings)
        high     == HighSeverity(found)
        records  == CronRecords(high, NowStamp(store))
        inserted == fetchOk /\ Len(high) > 0 /\ logOk
    IN  /\ resp = NoResp
        \* an outcome is drawn only for a call that is made
        /\ logOk \in (IF fetchOk /\ Len(high) > 0 THEN BOOLEAN ELSE {FALSE})
        /\ inserted => Len(logs) + Len(records) <= MaxLogRows
        /\ statsCache' = cache
        /\ logs' = IF inserted THEN InsertLogs(logs, records) ELSE logs
        /\ resp' = IF ~fetchOk THEN [op |-> "cron", status |-> 500]
                   ELSE [op |-> "cron", status |-> 200,
                         readings |-> readings,
                         anomalies |-> found,
                         zDivisors |-> CronZDivisors(readings),
                         logCalls |-> IF Len(high) > 0 THEN <<records>> ELSE <<>>,
                         analyzed |-> Len(readings),
                         anomaliesFound |-> Len(found),
                         highSeverity |-> Len(high)]
        /\ UNCHANGED <<store, nIngest, clock, calls>>

\* the response reaches the client; the next request is handled after that
Deliver ==
    /\ resp # NoResp
    /\ resp' = NoResp
    /\ UNCHANGED <<store, nIngest, logs, statsCache, clock, calls>>

\* the outcomes of an insert into anomaly_logs: the schema of the repository
\* (sql/) creates no such table, and the insert fails
LogOutcomes == {FALSE}

Next ==
    \/ \E r \in IngestReadings, complete \in BOOLEAN, dbOk \in BOOLEAN :
          Ingest(r, complete, dbOk)
    \/ \E limit \in BatchLimits, includeLogged \in BOOLEAN, fetchOk \in BOOLEAN :
          BatchGET(limit, includeLogged, fetchOk)
    \/ \E in \in LiveInputs, fetchOk \in BOOLEAN, logOk \in LogOutcomes :
          LiveCheck(in[1], in[2], fetchOk, logOk)
    \/ \E refreshOk \in BOOLEAN, fetchOk \in BOOLEAN, logOk \in LogOutcomes :
          CronGET(refreshOk, fetchOk, logOk)
    \/ Deliver

Spec == Init /\ [][Next]_vars

-----------------------------------------------------------------------------
(* The same handlers in a deployment whose database has the anomaly_logs   *)
(* table (GET /api/anomalies?logged=true reads it): an insert into it can   *)
(* succeed.  The reading stores are short and mix readings that lack one   *)
(* metric with complete ones.                                              *)

\* readings of the short stores: complete, without temperature, without
\* humidity
MixedReadings ==
    << R(Some(48), Some(100)), R(Null, Some(120)), R(Some(56), Null) >>

\* a store of n readings that takes them in turn, from the one after `first`
MixedHistory(first, n) ==
    [i \in 1..n |-> Row(i, MixedReadings[((first + i - 1) % Len(MixedReadings)) + 1])]

\* the (temperature, humidity) checkRealtimeAnomaly is called with
LoggedLiveInputs == { <<48, 100>>, <<64, 121>> }

\* the readings POST /api/ingest is called with
LoggedIngestReadings == { R(Some(68), Some(140)), R(Some(48), Some(100)) }

\* the outcomes of an insert into anomaly_logs when the table exists
LoggedOutcomes == BOOLEAN

InitLogged ==
    /\ \E n \in 0..MaxMixedLen : \E first \in 1..Len(MixedReadings) :
          store = MixedHistory(first, n)
    /\ nIngest = 0
    /\ logs = <<>>
    /\ statsCache = EmptyCache
    /\ clock = 0
    /\ resp = NoResp
    /\ calls = NoCalls

NextLogged ==
    \/ \E r \in LoggedIngestReadings, complete \in BOOLEAN, dbOk \in BOOLEAN :
          Ingest(r, complete, dbOk)
    \/ \E limit \in BatchLimits, includeLogged \in BOOLEAN, fetchOk \in BOOLEAN :
          BatchGET(limit, includeLogged, fetchOk)
    \/ \E in \in LoggedLiveInputs, fetchOk \in BOOLEAN, logOk \in LoggedOutcomes :
          LiveCheck(in[1], in[2], fetchOk, logOk)
    \/ \E refreshOk \in BOOLEAN, fetchOk \in BOOLEAN, logOk \in LoggedOutcomes :
          CronGET(refreshOk, fetchOk, logOk)
    \/ Deliver

SpecLogged == InitLogged /\ [][NextLogged]_vars

-----------------------------------------------------------------------------
(* The live check and the cron handler step by step.  Both are async: a    *)
(* call runs without interruption up to an await and is resumed later, and *)
(* other calls run in between.  refreshStatsCache awaits its fetch, and its *)
(* caller awaits refreshStatsCache.  The clock advances.                   *)

\* the readings of the initial stores, oldest first
AsyncReadings == << R(Some(48), Some(100)), R(Some(56), Some(120)), R(Null, Some(100)) >>

\* the readings POST /api/ingest is called with
AsyncIngestReadings == { R(Some(68), Some(140)) }

\* the (temperature, humidity) checkRealtimeAnomaly is called with
AsyncLiveInputs == { <<48, 100>>, <<64, 121>> }

InitAsync ==
    /\ \E n \in 0..MaxAsyncLen : store = [i \in 1..n |-> Row(i, AsyncReadings[i])]
    /\ nIngest = 0
    /\ logs = <<>>
    /\ statsCache = EmptyCache
    /\ clock = 0
    /\ resp = NoResp
    /\ calls = NoCalls

\* Date.now() advances by 5 minutes
Tick ==
    /\ clock < MaxClock
    /\ clock' = clock + 1
    /\ UNCHANGED <<store, nIngest, logs, statsCache, resp, calls>>

\* a call of checkRealtimeAnomaly suspended at an await
LiveCall(pc, temperature, humidity, now, at, rows, fetchOk) ==
    [pc |-> pc, temperature |-> temperature, humidity |-> humidity,
     now |-> now, at |-> at, rows |-> rows, fetchOk |-> fetchOk]

\* a call of the cron handler suspended at an await
CronCall(pc, rows, fetchOk) == [pc |-> pc, rows |-> rows, fetchOk |-> fetchOk]

\* checkRealtimeAnomaly from its z-score checks to its return: it reads
\* statsCache, logs what it found and returns it
LiveAnswer(temperature, humidity, now, at, stale, fetchOk, logOk) ==
    LET anomalies == LiveDetect(statsCache, temperature, humidity, now)
        records   == LogRecords(anomalies)
        inserted  == Len(anomalies) > 0 /\ logOk
    IN  /\ resp = NoResp
        /\ logOk \in (IF Len(anomalies) > 0 THEN BOOLEAN ELSE {FALSE})
        /\ inserted => Len(logs) + Len(records) <= MaxLogRows
        /\ logs' = IF inserted THEN InsertLogs(logs, records) ELSE logs
        /\ resp' = [op |-> "live",
                    temperature |-> temperature, humidity |-> humidity,
                    refreshed |-> stale, fetchOk |-> fetchOk,
                    fetches |-> IF stale THEN 1 ELSE 0,
                    \* Date.now() of the staleness test
                    at |-> at,
                    cache |-> statsCache,
                    anomalies |-> LiveReturn(anomalies, logOk),
                    zDivisors |-> LiveZDivisors(statsCache),
                    logCalls |-> IF Len(anomalies) > 0 THEN <<records>> ELSE <<>>,
                    logOk |-> logOk]

\* checkRealtimeAnomaly is called: with a stale cache it calls
\* refreshStatsCache and is suspended at the fetch, otherwise it runs to its
\* return
LiveBegin(temperature, humidity, logOk) ==
    /\ calls.live.pc = "idle"
    /\ IF IsStale(statsCache, clock)
       THEN /\ logOk = FALSE
            /\ calls' = [calls EXCEPT !.live =
                            LiveCall("fetch", temperature, humidity,
                                     NowStamp(store), clock, <<>>, TRUE)]
            /\ UNCHANGED <<logs, resp>>
       ELSE /\ LiveAnswer(temperature, humidity, NowStamp(store), clock,
                          FALSE, TRUE, logOk)
            /\ UNCHANGED calls
    /\ UNCHANGED <<store, nIngest, statsCache, clock>>

\* GET /api/cron is called: it calls refreshStatsCache and is suspended at
\* the fetch
CronBegin ==
    /\ calls.cron.pc = "idle"
    /\ calls' = [calls EXCEPT !.cron = CronCall("fetch", <<>>, TRUE)]
    /\ UNCHANGED <<store, nIngest, logs, statsCache, clock, resp>>

\* the database answers the fetch of refreshStatsCache of call p with the
\* rows of the table, or with an error
RefreshFetch(p, ok) ==
    /\ calls[p].pc = "fetch"
    /\ calls' = [calls EXCEPT ![p].pc = "settle",
                              ![p].rows = IF ok THEN store ELSE <<>>,
                              ![p].fetchOk = ok]
    /\ UNCHANGED <<store, nIngest, logs, statsCache, clock, resp>>

\* refreshStatsCache of call p is resumed with the answer: it returns on an
\* error and assigns statsCache otherwise; its caller is resumed later
RefreshSettle(p) ==
    /\ calls[p].pc = "settle"
    /\ statsCache' = Refreshed(statsCache, calls[p].rows, calls[p].fetchOk, clock)
    /\ calls' = [calls EXCEPT ![p].pc = IF p = "live" THEN "detect" ELSE "scan",
                              ![p].rows = <<>>]
    /\ UNCHANGED <<store, nIngest, logs, clock, resp>>

\* checkRealtimeAnomaly is resumed after refreshStatsCache
LiveFinish(logOk) ==
    /\ calls.live.pc = "detect"
    /\ LiveAnswer(calls.live.temperature, calls.live.humidity, calls.live.now,
                  calls.live.at, TRUE, calls.live.fetchOk, logOk)
    /\ calls' = [calls EXCEPT !.live = [pc |-> "idle"]]
    /\ UNCHANGED <<store, nIngest, statsCache, clock>>

\* the cron handler is resumed after refreshStatsCache: its own fetch, the
\* scan and the insert of the high-severity anomalies
CronScan(fetchOk, logOk) ==
    LET readings == FetchRecent(store, WINDOW_SIZE)
        found    == CronDetect(readings)
        high     == HighSeverity(found)
        records  == CronRecords(high, NowStamp(store))
        inserted == fetchOk /\ Len(high) > 0 /\ logOk
    IN  /\ calls.cron.pc = "scan"
        /\ resp = NoResp
        /\ logOk \in (IF fetchOk /\ Len(high) > 0 THEN BOOLEAN ELSE {FALSE})
        /\ inserted => Len(logs) + Len(records) <= MaxLogRows
        /\ logs' = IF inserted THEN InsertLogs(logs, records) ELSE logs
        /\ resp' = IF ~fetchOk THEN [op |-> "cron", status |-> 500]
                   ELSE [op |-> "cron", status |-> 200,
                         readings |-> readings,
                         anomalies |-> found,
                         zDivisors |-> CronZDivisors(readings),
                         logCalls |-> IF Len(high) > 0 THEN <<records>> ELSE <<>>,
                         analyzed |-> Len(readings),
                         anomaliesFound |-> Len(found),
                         highSeverity |-> Len(high)]
        /\ calls' = [calls EXCEPT !.cron = [pc |-> "idle"]]
        /\ UNCHANGED <<store, nIngest, statsCache, clock>>

NextAsync ==
    \/ \E r \in AsyncIngestReadings, complete \in BOOLEAN, dbOk \in BOOLEAN :
          Ingest(r, complete, dbOk)
    \/ Tick
    \/ \E in \in AsyncLiveInputs, logOk \in LogOutcomes : LiveBegin(in[1], in[2], logOk)
    \/ CronBegin
    \/ \E p \in DOMAIN calls, ok \in BOOLEAN : RefreshFetch(p, ok)
    \/ \E p \in DOMAIN calls : RefreshSettle(p)
    \/ \E logOk \in LogOutcomes : LiveFinish(logOk)
    \/ \E fetchOk \in BOOLEAN, logOk \in LogOutcomes : CronScan(fetchOk, logOk)
    \/ Deliver

SpecAsync == InitAsync /\ [][NextAsync]_vars

-----------------------------------------------------------------------------
(* The batch z-score detector on readings with three decimals.  In this    *)
(* specification a value is an integer number of thousandths of a unit     *)
(* (2.009 is 2009).  The detector compares ratios of differences and is    *)
(* independent of the unit; the expectedRange of its anomalies is rounded  *)
(* to two decimals, that is to multiples of 10 thousandths.                *)

\* longest run of the base reading in the initial store of SpecFine
MaxFineRun == 11

\* largest distance of the last reading from the base reading, in
\* thousandths
MaxFineStep == 12

\* Math.sqrt(x) rounded down and rounded up to an integer
FloorSqrt(x) == CHOOSE r \in 0..x : r * r <= x /\ (r + 1) * (r + 1) > x

CeilSqrt(x) == IF FloorSqrt(x) * FloorSqrt(x) = x THEN FloorSqrt(x) ELSE FloorSqrt(x) + 1

\* [Math.round((stats.mean - 2 * stats.std) * 100) / 100,
\*  Math.round((stats.mean + 2 * stats.std) * 100) / 100] in thousandths:
\* mean -+ 2 * std is (sum -+ sqrt(4 * VarN2)) / n, and Math.round(y) is
\* floor(y + 1/2)
ExpectedRangeZ(stats) ==
    << 10 * ((stats.sum + 5 * stats.n - CeilSqrt(4 * VarN2(stats))) \div (10 * stats.n)),
       10 * ((stats.sum + 5 * stats.n + FloorSqrt(4 * VarN2(stats))) \div (10 * stats.n)) >>

\* the anomalies of detectZScoreAnomalies with their expectedRange
ZScoreAnomaliesWithRange(data, metric) ==
    LET stats == calculateStatsBatch(MetricValues(data, metric))
        found == detectZScoreAnomalies(data, metric)
    IN  [k \in 1..Len(found) |->
            found[k] @@ [expectedRange |-> ExpectedRangeZ(stats)]]

\* the base reading: 2.000 degrees, 2.000 percent
FineBaseReading == R(Some(2000), Some(2000))

\* a run of n base readings and a last reading dt and dh thousandths above
FineHistory(n, dt, dh) ==
    [i \in 1..(n + 1) |->
        Row(i, IF i <= n THEN FineBaseReading ELSE R(Some(2000 + dt), Some(2000 + dh)))]

InitFine ==
    /\ \E n \in (MIN_SAMPLES - 1)..MaxFineRun :
          \E dt \in 0..MaxFineStep, dh \in 0..MaxFineStep :
             store = FineHistory(n, dt, dh)
    /\ nIngest = 0
    /\ logs = <<>>
    /\ statsCache = EmptyCache
    /\ clock = 0
    /\ resp = NoResp
    /\ calls = NoCalls

\* detectZScoreAnomalies(chronologicalData, metric) on the rows of the table
ZScoreProbe(metric) ==
    /\ resp = NoResp
    /\ resp' = [op |-> "zscore", metric |-> metric, data |-> store,
                anomalies |-> ZScoreAnomaliesWithRange(store, metric)]
    /\ UNCHANGED <<store, nIngest, logs, statsCache, clock, calls>>

NextFine ==
    \/ \E metric \in Metrics : ZScoreProbe(metric)
    \/ Deliver

SpecFine == InitFine /\ [][NextFine]_vars

-----------------------------------------------------------------------------
(* Properties.  The statistics of a window are taken here from its rows,   *)
(* independently of the detectors.                                         *)

BatchDone == resp.op = "batch" /\ resp.status = 200

CronDone == resp.op = "cron" /\ resp.status = 200

LiveDone == resp.op = "live"

\* the indices of the rows that carry the metric
PresentIdx(rows, m) == {i \in 1..Len(rows) : ~IsNull(rows[i][m])}

WindowN(rows, m) == Cardinality(PresentIdx(rows, m))

WindowSum(rows, m) ==
    LET F[i \in 0..Len(rows)] ==
            IF i = 0 THEN 0
            ELSE F[i - 1] + (IF IsNull(rows[i][m]) THEN 0 ELSE Val(rows[i][m]))
    IN  F[Len(rows)]

WindowSumSq(rows, m) ==
    LET F[i \in 0..Len(rows)] ==
            IF i = 0 THEN 0
            ELSE F[i - 1] + (IF IsNull(rows[i][m]) THEN 0
                             ELSE Val(rows[i][m]) * Val(rows[i][m]))
    IN  F[Len(rows)]

\* (n * std)^2 of the window
WindowVarN2(rows, m) ==
    WindowN(rows, m) * WindowSumSq(rows, m) - WindowSum(rows, m) * WindowSum(rows, m)

\* the count, sum and sum of squares of the window, taken once
WindowStats(rows, m) ==
    [n |-> WindowN(rows, m), sum |-> WindowSum(rows, m), sumsq |-> WindowSumSq(rows, m)]

\* (n * |v - mean|)^2 of a value against the window
WindowDevN2(w, v) == (w.n * v - w.sum) * (w.n * v - w.sum)

\* z = |v - mean| / std of the window compared with a / b (std > 0)
WindowZAbove(w, v, a, b) ==
    b * b * WindowDevN2(w, v) > a * a * (w.n * w.sumsq - w.sum * w.sum)

WindowZEquals(w, v, a, b) ==
    b * b * WindowDevN2(w, v) = a * a * (w.n * w.sumsq - w.sum * w.sum)

\* the entries of a list of anomalies that satisfy P
Entries(list, P(_)) == {i \in 1..Len(list) : P(list[i])}

\* the batch detectors flagged the reading by this method (either metric)
FlaggedBy(list, id, method) ==
    \E i \in 1..Len(list) : list[i].id = id /\ list[i].detectionMethod = method

\* C1: in the anomaly list returned by batch analysis, a reading that is at
\* once a z-score outlier and a rate-of-change outlier appears exactly twice,
\* once with detectionMethod zscore and once with rate_of_change (while the
\* list is under the cap of 50 entries).
C1_DualOutlierListedTwice ==
    BatchDone =>
        \A i \in 1..Len(resp.data) :
            LET id == resp.data[i].id
            IN  (/\ FlaggedBy(resp.all, id, "zscore")
                 /\ FlaggedBy(resp.all, id, "rate_of_change")
                 /\ Len(resp.all) < 50)
                => /\ Cardinality(Entries(resp.anomalies, LAMBDA a :
                          a.id = id /\ a.detectionMethod = "zscore")) = 1
                   /\ Cardinality(Entries(resp.anomalies, LAMBDA a :
                          a.id = id /\ a.detectionMethod = "rate_of_change")) = 1
                   /\ Cardinality(Entries(resp.anomalies, LAMBDA a : a.id = id)) = 2

\* the rate-of-change anomalies of a list for one reading and metric
RateEntries(list, id, m) ==
    Entries(list, LAMBDA a :
        a.id = id /\ a.metric = m /\ a.detectionMethod = "rate_of_change")

\* C2: rate-of-change on temperature: previous 24.0 and current 28.0 give an
\* anomaly of severity high, previous 24.0 and current 25.5 give no anomaly,
\* in the batch detector and in the live check.
C2_RateExampleHigh ==
    /\ BatchDone =>
          \A i \in 2..Len(resp.data) :
             LET prev == resp.data[i - 1].temperature
                 cur  == resp.data[i].temperature
                 hits == RateEntries(resp.all, resp.data[i].id, "temperature")
             IN  /\ (prev = Some(48) /\ cur = Some(56))
                    => /\ hits # {}
                       /\ \A k \in hits : resp.all[k].severity = "high"
                 /\ (prev = Some(48) /\ cur = Some(51)) => hits = {}
    /\ LiveDone =>
          LET recent == resp.cache.recentReadings
              hits   == RateEntries(resp.anomalies, 0, "temperature")
          IN  (Len(recent) > 0 /\ recent[1].temperature = Some(48))
              => /\ resp.temperature = 56
                    => /\ hits # {}
                       /\ \A k \in hits : resp.anomalies[k].severity = "high"
                 /\ resp.temperature = 51 => hits = {}

\* C3: every successful POST /api/ingest is followed by exactly one call of
\* checkRealtimeAnomaly with the temperature and humidity of that reading.
C3_IngestRunsLiveCheck ==
    (resp.op = "ingest" /\ resp.status = 200)
        => resp.liveChecks = << <<resp.reading.temperature, resp.reading.humidity>> >>

\* the z-score anomalies of a list for one reading and metric (the live check
\* labels them 'realtime', the cron scan gives them no method)
BatchZEntries(list, id, m) ==
    Entries(list, LAMBDA a : a.id = id /\ a.metric = m /\ a.detectionMethod = "zscore")

CronZEntries(list, id, m) == Entries(list, LAMBDA a : a.id = id /\ a.metric = m)

LiveZEntries(list, m) ==
    Entries(list, LAMBDA a : a.metric = m /\ a.detectionMethod # "rate_of_change")

\* the minimum standard deviation of the live check: 0.5 degree, 2.0 percent
StdFloor(m) == IF m = "temperature" THEN 1 ELSE 4

\* (n * std)^2, (n * max(std, floor))^2 and (n * |v - mean|)^2 of a cached
\* Stats
StatsVarN2(st) == st.n * st.sumsq - st.sum * st.sum

StatsEffVarN2(st, m) ==
    IF StatsVarN2(st) >= StdFloor(m) * StdFloor(m) * st.n * st.n
    THEN StatsVarN2(st)
    ELSE StdFloor(m) * StdFloor(m) * st.n * st.n

StatsDevN2(st, v) == (st.n * v - st.sum) * (st.n * v - st.sum)

\* z = |v - mean| / max(std, floor) of the cached Stats compared with a / b
StatsZAbove(st, m, v, a, b) == b * b * StatsDevN2(st, v) > a * a * StatsEffVarN2(st, m)

\* the live check has a baseline for the metric: Stats of a sample that is
\* not empty
HasBaseline(cache, m) == ~IsNull(cache[m]) /\ Val(cache[m]).n > 0

GradeOf(above4, above35) ==
    IF above4 THEN "high" ELSE IF above35 THEN "medium" ELSE "low"

RateLimit(m) == IF m = "temperature" THEN 4 ELSE 10

\* the grade of a change: high above twice the threshold, medium above one
\* and a half times the threshold, low otherwise
RateGrade(delta, m) ==
    IF delta > 2 * RateLimit(m) THEN "high"
    ELSE IF 2 * delta > 3 * RateLimit(m) THEN "medium" ELSE "low"

\* a value the live check accepts as the previous value of a metric: the
\* newest cached reading carries it, and it is not the 0 of a failed read
LivePrevious(cache, m) ==
    /\ Len(cache.recentReadings) > 0
    /\ ~IsNull(cache.recentReadings[1][m])
    /\ Val(cache.recentReadings[1][m]) # 0

C7_LiveNeedsMinimumSamples ==
    LiveDone =>
        \A m \in Metrics :
            (IsNull(resp.cache[m]) \/ Val(resp.cache[m]).n < 10)
            => LiveZEntries(resp.anomalies, m) = {}

\* C8: the batch z-score detector returns no anomaly for a metric of which
\* the batch holds fewer than 10 non-null values; the count is per metric.
C8_BatchNeedsMinimumSamples ==
    BatchDone =>
        \A m \in Metrics :
            WindowN(resp.data, m) < 10
            => Entries(resp.all, LAMBDA a :
                   a.metric = m /\ a.detectionMethod = "zscore") = {}

\* a batch of at least 10 readings, all with humidity, holds between 1 and 9
\* temperatures that are not all equal, and no temperature is flagged
C8_Witness ==
    /\ BatchDone
    /\ WindowN(resp.data, "humidity") >= 10
    /\ WindowN(resp.data, "temperature") \in 1..9
    /\ WindowVarN2(resp.data, "temperature") > 0
    /\ Entries(resp.all, LAMBDA a :
           a.metric = "temperature" /\ a.detectionMethod = "zscore") = {}

\* C9: no detection path divides by a zero standard deviation: in batch
\* analysis and in the cron scan a metric whose window has std = 0 (an empty
\* or single-valued window included) yields no z-score anomaly, and the
\* divisor max(std, floor) of the live check is strictly positive.
C9_NoDivisionByZeroStd ==
    /\ (BatchDone \/ CronDone \/ LiveDone) => \A d \in resp.zDivisors : ~d.zero
    /\ BatchDone =>
          \A m \in Metrics :
             WindowVarN2(resp.data, m) = 0
             => Entries(resp.all, LAMBDA a :
                    a.metric = m /\ a.detectionMethod = "zscore") = {}
    /\ CronDone =>
          \A m \in Metrics :
             WindowVarN2(resp.readings, m) = 0
             => Entries(resp.anomalies, LAMBDA a : a.metric = m) = {}

\* a batch holds at least 10 values of a metric, all equal (std = 0), and no
\* division was made for that metric
C9_Witness ==
    /\ BatchDone
    /\ \E m \in Metrics :
          /\ WindowN(resp.data, m) >= 10
          /\ WindowVarN2(resp.data, m) = 0
          /\ \A d \in resp.zDivisors : d.metric # m

\* C10: in batch rate-of-change detection a reading whose immediately
\* preceding reading lacks the metric is not rate-compared: it is never
\* flagged on the basis of an older value from before the gap.
C10_NoRateCompareAcrossGap ==
    BatchDone =>
        \A m \in Metrics : \A i \in 2..Len(resp.data) :
            (~IsNull(resp.data[i][m]) /\ IsNull(resp.data[i - 1][m]))
            => RateEntries(resp.all, resp.data[i].id, m) = {}

\* the other metric
Other(m) == IF m = "temperature" THEN "humidity" ELSE "temperature"

\* the newest row before row i that carries the metric (0: there is none)
PrevPresent(rows, i, m) ==
    LET before == {j \in PresentIdx(rows, m) : j < i}
    IN  IF before = {} THEN 0 ELSE CHOOSE j \in before : \A k \in before : k <= j

\* a list holds a rate-of-change anomaly for row i and metric m exactly when
\* the row differs from the newest earlier row that carries m by more than
\* the threshold, and the anomaly names that row's value as the previous one
RateComparedWithPrevious(list, rows, i, m) ==
    LET j    == PrevPresent(rows, i, m)
        hits == RateEntries(list, rows[i].id, m)
    IN  IF j = 0 THEN hits = {}
        ELSE /\ hits # {} <=> Abs(Val(rows[i][m]) - Val(rows[j][m])) > RateLimit(m)
             /\ \A k \in hits :
                   list[k].expectedRange = <<Val(rows[j][m]) - RateLimit(m),
                                            Val(rows[j][m]) + RateLimit(m)>>

\* the Stats hold the count and the sum of the values the rows carry
StatsOfPresent(st, rows, m) ==
    /\ st.n = WindowN(rows, m)
    /\ st.sum = WindowSum(rows, m)
    /\ st.sumsq = WindowSumSq(rows, m)

\* C11: a reading with one metric null and the other present contributes
\* nothing to the statistics of the null metric, is never the previous value
\* of a rate-of-change comparison of that metric and is never flagged for it,
\* while its other value is counted in the other metric's statistics and
\* rate-compared with its neighbours (batch analysis, cache refresh, live
\* rate check).
C11_NullMetricExcluded ==
    /\ (BatchDone /\ Len(resp.data) > 0) =>
          \A m \in Metrics : \A i \in 1..Len(resp.data) :
             (IsNull(resp.data[i][m]) /\ ~IsNull(resp.data[i][Other(m)]))
             => /\ StatsOfPresent(resp.summary.statistics[m], resp.data, m)
                /\ StatsOfPresent(resp.summary.statistics[Other(m)], resp.data, Other(m))
                /\ Entries(resp.all, LAMBDA a :
                       a.id = resp.data[i].id /\ a.metric = m) = {}
                /\ \A j \in PresentIdx(resp.data, m) :
                      RateComparedWithPrevious(resp.all, resp.data, j, m)
                /\ \A j \in PresentIdx(resp.data, Other(m)) :
                      RateComparedWithPrevious(resp.all, resp.data, j, Other(m))
    /\ LiveDone =>
          \A m \in Metrics :
             /\ (resp.refreshed /\ resp.fetchOk)
                => StatsOfPresent(Val(resp.cache[m]), store, m)
             /\ (/\ Len(resp.cache.recentReadings) > 0
                 /\ IsNull(resp.cache.recentReadings[1][m])
                 /\ ~IsNull(resp.cache.recentReadings[1][Other(m)]))
                => /\ RateEntries(resp.anomalies, 0, m) = {}
                   /\ RateEntries(resp.anomalies, 0, Other(m)) # {}
                         <=> Abs(resp[Other(m)]
                                 - Val(resp.cache.recentReadings[1][Other(m)]))
                                > RateLimit(Other(m))

\* a batch holds a reading without temperature between two readings with
\* temperature: its humidity is rate-flagged, and the reading after it is
\* rate-flagged for temperature against the reading before it
C11_Witness ==
    /\ BatchDone
    /\ \E i \in 2..(Len(resp.data) - 1) :
          /\ IsNull(resp.data[i].temperature)
          /\ ~IsNull(resp.data[i].humidity)
          /\ ~IsNull(resp.data[i - 1].temperature)
          /\ ~IsNull(resp.data[i + 1].temperature)
          /\ RateEntries(resp.all, resp.data[i].id, "humidity") # {}
          /\ RateEntries(resp.all, resp.data[i + 1].id, "temperature") # {}

\* C12: the first reading of a metric in a batch is never rate-flagged, and
\* the live check emits no rate-of-change anomaly for a metric when the cache
\* holds no previous reading or the newest cached reading lacks that metric.
C12_FirstReadingNotRateFlagged ==
    /\ BatchDone =>
          \A m \in Metrics : \A i \in PresentIdx(resp.data, m) :
             PrevPresent(resp.data, i, m) = 0
             => RateEntries(resp.all, resp.data[i].id, m) = {}
    /\ LiveDone =>
          \A m \in Metrics :
             (\/ Len(resp.cache.recentReadings) = 0
              \/ IsNull(resp.cache.recentReadings[1][m]))
             => RateEntries(resp.anomalies, 0, m) = {}

\* the live check got 32.0 while the newest cached reading has no
\* temperature and an older one has 24.0, and emitted no temperature rate
\* anomaly
C12_Witness ==
    /\ LiveDone
    /\ resp.temperature = 64
    /\ Len(resp.cache.recentReadings) > 1
    /\ IsNull(resp.cache.recentReadings[1].temperature)
    /\ resp.cache.recentReadings[2].temperature = Some(48)
    /\ RateEntries(resp.anomalies, 0, "temperature") = {}

\* the pc at which the caller of refreshStatsCache goes on
AfterRefresh(p) == IF p = "live" THEN "detect" ELSE "scan"

\* C13: when the fetch of refreshStatsCache fails, the cache is left exactly
\* as it was (temperature Stats, humidity Stats, recentReadings and
\* lastUpdated) and the caller goes on as after a successful refresh.
C13_FailedRefreshKeepsCache ==
    [][\A p \in DOMAIN calls :
          (calls[p].pc = "settle" /\ ~calls[p].fetchOk /\ calls'[p].pc # "settle")
          => /\ statsCache' = statsCache
             /\ calls'[p].pc = AfterRefresh(p)]_vars

\* a live check found its cache older than 5 minutes, its refresh failed,
\* and it ran its checks against that same cache
C13_Witness ==
    /\ LiveDone
    /\ resp.refreshed
    /\ ~resp.fetchOk
    /\ ~IsNull(resp.cache.lastUpdated)
    /\ resp.at - Val(resp.cache.lastUpdated) > 1
    /\ Len(resp.cache.recentReadings) > 0

\* C14: the list checkRealtimeAnomaly returns is the same whether the write
\* to the anomaly log succeeds or fails: for each metric it holds one z-score
\* anomaly exactly when the z-score against the cache is above 3.0 and one
\* rate anomaly exactly when the change is above the threshold, whatever the
\* outcome of the insert.
C14_LogFailureKeepsResult ==
    LiveDone =>
        \A m \in Metrics :
            /\ LiveZEntries(resp.anomalies, m) # {}
                  <=> (/\ HasBaseline(resp.cache, m)
                       /\ StatsZAbove(Val(resp.cache[m]), m, resp[m], 3, 1))
            /\ Cardinality(LiveZEntries(resp.anomalies, m)) <= 1
            /\ RateEntries(resp.anomalies, 0, m) # {}
                  <=> (/\ LivePrevious(resp.cache, m)
                       /\ Abs(resp[m] - Val(resp.cache.recentReadings[1][m]))
                             > RateLimit(m))
            /\ Cardinality(RateEntries(resp.anomalies, 0, m)) <= 1

\* a live check whose insert failed returned its anomalies, after an
\* earlier insert had succeeded
C14_Witness ==
    /\ LiveDone
    /\ Len(resp.logCalls) = 1
    /\ ~resp.logOk
    /\ Len(resp.anomalies) > 0
    /\ Len(logs) > 0

\* the cache is the snapshot of one window: both Stats and recentReadings
\* derive from the rows
SnapshotOf(cache, rows) ==
    /\ ~IsNull(cache.temperature)
    /\ ~IsNull(cache.humidity)
    /\ StatsOfPresent(Val(cache.temperature), rows, "temperature")
    /\ StatsOfPresent(Val(cache.humidity), rows, "humidity")
    /\ Len(cache.recentReadings) = (IF Len(rows) < 10 THEN Len(rows) ELSE 10)
    /\ \A i \in 1..Len(cache.recentReadings) :
          cache.recentReadings[i] = rows[Len(rows) + 1 - i]

\* the cache is as constructed, or the snapshot of a window the table has
\* held (the table only grows, and every window holds the whole table)
WholeSnapshot(cache) ==
    \/ /\ IsNull(cache.temperature)
       /\ IsNull(cache.humidity)
       /\ IsNull(cache.lastUpdated)
       /\ cache.recentReadings = <<>>
    \/ \E k \in 0..Len(store) : SnapshotOf(cache, SubSeq(store, 1, k))

\* C15: under every interleaving of live checks and cron refreshes the cache
\* never holds a partial update: its temperature Stats, humidity Stats and
\* recentReadings derive from one and the same fetched window, and so do the
\* values one live check reads.
C15_CacheIsOneSnapshot ==
    /\ WholeSnapshot(statsCache)
    /\ LiveDone => WholeSnapshot(resp.cache)

\* a live check read a snapshot older than the table while the refresh of a
\* cron call was between its fetch and its assignment
C15_Witness ==
    /\ LiveDone
    /\ ~IsNull(resp.cache.lastUpdated)
    /\ Len(resp.cache.recentReadings) < Len(store)
    /\ calls.cron.pc = "settle"
    /\ calls.cron.fetchOk

\* a step in which checkRealtimeAnomaly is called: the call is suspended at
\* the fetch of a refresh, or it answers at once
LiveCalled ==
    /\ calls.live.pc = "idle"
    /\ \/ calls'.live.pc = "fetch"
       \/ resp = NoResp /\ resp'.op = "live"

\* no refresh has succeeded, or more than 5 minutes have passed since the
\* last one that did
CacheIsOld ==
    \/ IsNull(statsCache.lastUpdated)
    \/ clock - Val(statsCache.lastUpdated) > 1

\* C16: checkRealtimeAnomaly starts a cache refresh exactly when the cache is
\* stale: no refresh has ever succeeded, or strictly more than 5 minutes have
\* passed since lastUpdated.  With a cache of at most 5 minutes it makes no
\* fetch from the reading store and answers from the cache as it is.
C16_RefreshExactlyWhenStale ==
    [][LiveCalled =>
          IF CacheIsOld
          THEN /\ calls'.live.pc = "fetch"
               /\ resp' = resp
          ELSE /\ calls'.live.pc = "idle"
               /\ resp'.op = "live"
               /\ resp'.fetches = 0
               /\ resp'.cache = statsCache
               /\ statsCache' = statsCache]_vars

\* a live check found its cache exactly 5 minutes old and made no fetch
C16_Witness ==
    /\ LiveDone
    /\ resp.fetches = 0
    /\ ~IsNull(resp.cache.lastUpdated)
    /\ resp.at - Val(resp.cache.lastUpdated) = 1

\* the detection methods of the specification
SpecifiedMethods == {"zscore", "rate_of_change"}

\* every anomaly of the list names one of the specified methods
MethodsSpecified(list) ==
    \A i \in 1..Len(list) :
        /\ "detectionMethod" \in DOMAIN list[i]
        /\ list[i].detectionMethod \in SpecifiedMethods

\* every record of every append to the log names one of the specified
\* methods
LoggedMethodsSpecified(logCalls) ==
    \A c \in 1..Len(logCalls) : \A i \in 1..Len(logCalls[c]) :
        logCalls[c][i].detection_method \in SpecifiedMethods

\* C17: every anomaly produced by batch analysis, by the live check and by
\* the cron scan, and every record forwarded to the anomaly log, carries a
\* detectionMethod in {zscore, rate_of_change}.
C17_DetectionMethodSpecified ==
    /\ BatchDone => MethodsSpecified(resp.all)
    /\ LiveDone => /\ MethodsSpecified(resp.anomalies)
                   /\ LoggedMethodsSpecified(resp.logCalls)
    /\ CronDone => /\ MethodsSpecified(resp.anomalies)
                   /\ LoggedMethodsSpecified(resp.logCalls)

\* C18: the cron scan forwards only high-severity anomalies to the anomaly
\* log: every record it hands to the insert has severity high and stems from
\* a high-severity anomaly of the scan, an anomaly of severity medium or low
\* has no record, and the response counts all anomalies found.
C18_CronLogsOnlyHigh ==
    CronDone =>
        /\ Len(resp.logCalls) <= 1
        /\ Len(resp.logCalls) = 1
              <=> Entries(resp.anomalies, LAMBDA a : a.severity = "high") # {}
        /\ \A c \in 1..Len(resp.logCalls) : \A i \in 1..Len(resp.logCalls[c]) :
              /\ resp.logCalls[c][i].severity = "high"
              /\ Entries(resp.anomalies, LAMBDA a :
                     /\ a.severity = "high"
                     /\ a.metric = resp.logCalls[c][i].metric
                     /\ a.value = resp.logCalls[c][i].value) # {}
        /\ \A k \in Entries(resp.anomalies, LAMBDA a : a.severity # "high") :
              \A c \in 1..Len(resp.logCalls) : \A i \in 1..Len(resp.logCalls[c]) :
                 \/ resp.logCalls[c][i].metric # resp.anomalies[k].metric
                 \/ resp.logCalls[c][i].value # resp.anomalies[k].value
        /\ resp.anomaliesFound = Len(resp.anomalies)
        /\ resp.highSeverity
              = Cardinality(Entries(resp.anomalies, LAMBDA a : a.severity = "high"))

\* a scan found an anomaly of severity high and one of a lower severity, and
\* handed only the first to the insert
C18_Witness ==
    /\ CronDone
    /\ Entries(resp.anomalies, LAMBDA a : a.severity # "high") # {}
    /\ Len(resp.logCalls) = 1
    /\ Len(resp.logCalls[1]) = 1
    /\ resp.logCalls[1][1].severity = "high"

\* the list is ordered newest first by timestamp
NewestFirst(list) ==
    \A i \in 1..Len(list) : \A j \in (i + 1)..Len(list) :
        list[i].timestamp >= list[j].timestamp

\* C19: the anomaly list returned by GET /api/anomalies is ordered newest
\* first by timestamp and holds at most 50 entries, none of them older than
\* a detected anomaly it leaves out, also when logged anomalies are included.
C19_ReturnedNewestFirst ==
    BatchDone =>
        /\ NewestFirst(resp.anomalies)
        /\ Len(resp.anomalies) <= 50
        /\ \A k \in 1..Len(resp.unique) :
              \/ \E i \in 1..Len(resp.anomalies) :
                    /\ resp.anomalies[i].id = resp.unique[k].id
                    /\ resp.anomalies[i].timestamp = resp.unique[k].timestamp
              \/ \A i \in 1..Len(resp.anomalies) :
                    resp.anomalies[i].timestamp >= resp.unique[k].timestamp

\* the record is the log record of the anomaly
RecordOf(record, a) ==
    /\ record.metric = a.metric
    /\ record.value = a.value
    /\ record.deviation = a.deviation
    /\ record.severity = a.severity
    /\ record.detection_method = a.detectionMethod
    /\ record.detected_at = a.timestamp

\* C20: when checkRealtimeAnomaly finds at least one anomaly it forwards
\* exactly the anomalies it returns to the log in a single append, in their
\* order and with their fields, and when it finds none it makes no write.
C20_LiveLogsWhatItReturns ==
    LiveDone =>
        IF Len(resp.anomalies) = 0 THEN resp.logCalls = <<>>
        ELSE /\ Len(resp.logCalls) = 1
             /\ Len(resp.logCalls[1]) = Len(resp.anomalies)
             /\ \A i \in 1..Len(resp.anomalies) :
                   RecordOf(resp.logCalls[1][i], resp.anomalies[i])
             /\ resp.logOk =>
                   /\ Len(logs) >= Len(resp.anomalies)
                   /\ \A i \in 1..Len(resp.anomalies) :
                         RecordOf(logs[Len(logs) - Len(resp.anomalies) + i],
                                  resp.anomalies[i])

\* a live check returned several anomalies and its single insert put all of
\* them into anomaly_logs
C20_Witness ==
    /\ LiveDone
    /\ Len(resp.anomalies) > 1
    /\ resp.logOk
    /\ Len(resp.logCalls) = 1
    /\ Len(logs) = Len(resp.anomalies)

\* the place of an anomaly's detector in the order of the four detector
\* calls: temperature z-score, humidity z-score, temperature rate, humidity
\* rate
DetectorRank(a) ==
    (IF a.detectionMethod = "zscore" THEN 0 ELSE 2)
        + (IF a.metric = "temperature" THEN 1 ELSE 2)

\* C21: batch detection over one reading window gives one anomaly list and
\* one summary: the collected anomalies stand in detector order (temperature
\* z-score, humidity z-score, temperature rate, humidity rate), each detector's
\* in the order of the readings, and the deduplicated list is ordered by
\* timestamp, newest first, with anomalies of equal timestamp in detector
\* order, so that no two positions of it can be exchanged; the summary counts
\* that list.
C21_BatchOrderIsFixed ==
    (BatchDone /\ Len(resp.data) > 0) =>
        /\ \A i \in 1..Len(resp.all) : \A j \in (i + 1)..Len(resp.all) :
              \/ DetectorRank(resp.all[i]) < DetectorRank(resp.all[j])
              \/ /\ DetectorRank(resp.all[i]) = DetectorRank(resp.all[j])
                 /\ resp.all[i].timestamp < resp.all[j].timestamp
        /\ \A i \in 1..Len(resp.unique) : \A j \in (i + 1)..Len(resp.unique) :
              \/ resp.unique[i].timestamp > resp.unique[j].timestamp
              \/ /\ resp.unique[i].timestamp = resp.unique[j].timestamp
                 /\ DetectorRank(resp.unique[i]) < DetectorRank(resp.unique[j])
        /\ \A i \in 1..Len(resp.unique) :
              \E k \in 1..Len(resp.all) : resp.all[k] = resp.unique[i]
        /\ resp.summary.totalAnomalies = Len(resp.unique)

\* a batch list holds a z-score anomaly and a rate-of-change anomaly of one
\* reading, next to each other, above an older anomaly
C21_Witness ==
    /\ BatchDone
    /\ \E i \in 1..(Len(resp.unique) - 1) :
          /\ resp.unique[i].timestamp = resp.unique[i + 1].timestamp
          /\ resp.unique[i].detectionMethod = "zscore"
          /\ resp.unique[i + 1].detectionMethod = "rate_of_change"

\* no row carries a value of the metric that the refresh keeps
NoSample(rows, m) ==
    \A i \in 1..Len(rows) : IsNull(rows[i][m]) \/ Val(rows[i][m]) = 0

\* the Stats are all zero: mean 0, std 0, min 0, max 0 of no value
AllZeroStats(st) ==
    /\ st.n = 0
    /\ st.sum = 0
    /\ st.sumsq = 0
    /\ st.min = 0
    /\ st.max = 0

\* C22: when the filtered sample of a metric is empty, the refresh publishes
\* its snapshot with the all-zero Stats for that metric (the other Stats, the
\* recent readings and lastUpdated are set as usual), and every live check
\* that reads such Stats emits no z-score anomaly for the metric.
C22_EmptySampleGivesZeroStats ==
    LiveDone =>
        \A m \in Metrics :
            /\ (resp.refreshed /\ resp.fetchOk /\ NoSample(store, m))
               => /\ ~IsNull(resp.cache[m])
                  /\ AllZeroStats(Val(resp.cache[m]))
                  /\ ~IsNull(resp.cache[Other(m)])
                  /\ ~IsNull(resp.cache.lastUpdated)
                  /\ Len(resp.cache.recentReadings)
                        = (IF Len(store) < 10 THEN Len(store) ELSE 10)
            /\ (~IsNull(resp.cache[m]) /\ Val(resp.cache[m]).n = 0)
               => /\ AllZeroStats(Val(resp.cache[m]))
                  /\ LiveZEntries(resp.anomalies, m) = {}

\* a live check read all-zero temperature Stats next to a humidity baseline,
\* was given 32.0 degrees and emitted no temperature z-score anomaly, and a
\* humidity one
C22_Witness ==
    /\ LiveDone
    /\ resp.temperature = 64
    /\ ~IsNull(resp.cache.temperature)
    /\ AllZeroStats(Val(resp.cache.temperature))
    /\ Len(resp.cache.recentReadings) > 0
    /\ HasBaseline(resp.cache, "humidity")
    /\ LiveZEntries(resp.anomalies, "temperature") = {}
    /\ LiveZEntries(resp.anomalies, "humidity") # {}

\* no row carries the value 0 for the metric
NoZero(rows, m) ==
    \A i \in 1..Len(rows) : IsNull(rows[i][m]) \/ Val(rows[i][m]) # 0

\* C23: the minimum std (0.5 for temperature, 2.0 for humidity) is applied
\* only where a z-score is evaluated: after a refresh the cached Stats hold
\* the count, the mean and the population standard deviation of the window's
\* values as they are, also when that deviation is below the minimum, and the
\* live z-score is |value - mean| over the larger of the stored deviation and
\* the minimum.  (Windows without a reading of 0.)
C23_FloorOnlyAtEvaluation ==
    LiveDone =>
        \A m \in Metrics :
            /\ (resp.refreshed /\ resp.fetchOk /\ NoZero(store, m))
               => /\ StatsOfPresent(Val(resp.cache[m]), store, m)
                  /\ StatsVarN2(Val(resp.cache[m])) = WindowVarN2(store, m)
            /\ HasBaseline(resp.cache, m)
               => /\ LiveZEntries(resp.anomalies, m) # {}
                        <=> StatsZAbove(Val(resp.cache[m]), m, resp[m], 3, 1)
                  /\ \A k \in LiveZEntries(resp.anomalies, m) :
                        /\ resp.anomalies[k].deviation.den2
                              = StatsEffVarN2(Val(resp.cache[m]), m)
                        /\ resp.anomalies[k].deviation.num * resp.anomalies[k].deviation.num
                              = StatsDevN2(Val(resp.cache[m]), resp[m])

\* a refresh stored a temperature deviation above 0 and below 0.5, and the
\* live check did not flag a temperature more than 3 stored deviations from
\* the mean because it is within 3 times 0.5
C23_Witness ==
    /\ LiveDone
    /\ resp.refreshed
    /\ resp.fetchOk
    /\ HasBaseline(resp.cache, "temperature")
    /\ StatsVarN2(Val(resp.cache.temperature)) > 0
    /\ StatsVarN2(Val(resp.cache.temperature))
          < Val(resp.cache.temperature).n * Val(resp.cache.temperature).n
    /\ StatsDevN2(Val(resp.cache.temperature), resp.temperature)
          > 9 * StatsVarN2(Val(resp.cache.temperature))
    /\ LiveZEntries(resp.anomalies, "temperature") = {}

\* C24: only null is absent: a reading of 0 is a value like any other, it is
\* counted in the Stats a refresh computes, and as the newest cached reading
\* it is the previous value of the live rate-of-change comparison.
C24_ZeroIsPresent ==
    LiveDone =>
        \A m \in Metrics :
            /\ (resp.refreshed /\ resp.fetchOk)
               => StatsOfPresent(Val(resp.cache[m]), store, m)
            /\ (/\ Len(resp.cache.recentReadings) > 0
                /\ ~IsNull(resp.cache.recentReadings[1][m]))
               => (RateEntries(resp.anomalies, 0, m) # {}
                      <=> Abs(resp[m] - Val(resp.cache.recentReadings[1][m]))
                             > RateLimit(m))

\* the detections of a metric among the collected anomalies: one for every
\* reading and method
Detections(list, m) ==
    {<<list[k].id, list[k].detectionMethod>> :
        k \in {j \in 1..Len(list) : list[j].metric = m}}

\* C25: batch analysis keeps each detection per metric: every anomaly a
\* detector emitted for a reading, metric and method is in the deduplicated
\* list, the humidity anomaly of a reading also when a temperature anomaly of
\* the same reading and method exists, and the summary counts them by metric.
C25_BothMetricsKept ==
    (BatchDone /\ Len(resp.data) > 0) =>
        /\ \A k \in 1..Len(resp.all) :
              \E i \in 1..Len(resp.unique) :
                 /\ resp.unique[i].id = resp.all[k].id
                 /\ resp.unique[i].metric = resp.all[k].metric
                 /\ resp.unique[i].detectionMethod = resp.all[k].detectionMethod
        /\ \A m \in Metrics :
              resp.summary.byMetric[m] = Cardinality(Detections(resp.all, m))

\* the id of the newest reading of the snapshot in the cache (0: none)
NewestCached(cache) ==
    IF Len(cache.recentReadings) = 0 THEN 0 ELSE cache.recentReadings[1].id

\* C26: when refreshes overlap, the snapshot left in the cache is never older
\* than the one it replaces: no step puts a snapshot whose newest reading is
\* older than the newest reading of the snapshot before it, and lastUpdated
\* never decreases.
C26_RefreshNeverGoesBack ==
    [][/\ NewestCached(statsCache') >= NewestCached(statsCache)
       /\ ~IsNull(statsCache.lastUpdated)
          => /\ ~IsNull(statsCache'.lastUpdated)
             /\ Val(statsCache'.lastUpdated) >= Val(statsCache.lastUpdated)]_vars

\* a step in which a call of checkRealtimeAnomaly that found its cache fresh
\* runs from its call to its return
FreshLiveCheck ==
    /\ resp = NoResp
    /\ resp'.op = "live"
    /\ ~resp'.refreshed

NeverRefreshed(cache) == IsNull(cache.temperature) /\ IsNull(cache.humidity)

\* C28: as long as no refresh has succeeded, every call of
\* checkRealtimeAnomaly attempts the refresh (one fetch), and when that fails
\* too it returns an empty list and writes nothing to the anomaly log,
\* whatever the values of the reading.
C28_NoBaselineNoAnomalies ==
    (LiveDone /\ NeverRefreshed(resp.cache)) =>
        /\ resp.refreshed
        /\ resp.fetches = 1
        /\ ~resp.fetchOk
        /\ IsNull(resp.cache.lastUpdated)
        /\ resp.cache.recentReadings = <<>>
        /\ resp.anomalies = <<>>
        /\ resp.logCalls = <<>>
        /\ logs = <<>>

\* a live check of 32.0 degrees and 60.5 percent over a store of at least 10
\* readings whose refresh failed returned nothing
C28_Witness ==
    /\ LiveDone
    /\ NeverRefreshed(resp.cache)
    /\ Len(store) >= 10
    /\ resp.temperature = 64
    /\ resp.humidity = 121
    /\ resp.anomalies = <<>>

\* C30: in every batch response the summary agrees with itself and with the
\* list: totalAnomalies is the sum of the bySeverity counts, of the byMetric
\* counts and of the byMethod counts, and when logged anomalies are not
\* requested the returned list holds min(50, totalAnomalies) entries.
C30_SummaryMatchesList ==
    BatchDone =>
        /\ Len(resp.data) > 0 =>
              /\ resp.summary.totalAnomalies
                    = resp.summary.bySeverity.high + resp.summary.bySeverity.medium
                         + resp.summary.bySeverity.low
              /\ resp.summary.totalAnomalies
                    = resp.summary.byMetric.temperature + resp.summary.byMetric.humidity
              /\ resp.summary.totalAnomalies
                    = resp.summary.byMethod.zscore + resp.summary.byMethod.rateOfChange
        /\ ~resp.includeLogged =>
              Len(resp.anomalies)
                 = (IF resp.summary.totalAnomalies < 50
                    THEN resp.summary.totalAnomalies ELSE 50)

\* the value is strictly outside the range [low, high]
Outside(v, range) == v < range[1] \/ v > range[2]

ZScoreDone == resp.op = "zscore"

\* C29: every emitted anomaly has its value strictly outside its own
\* expectedRange: a z-score anomaly of the batch detector outside the range
\* around the mean, a rate-of-change anomaly of the batch detector and of the
\* live check outside the range around the previous value.
C29_ValueOutsideExpectedRange ==
    /\ ZScoreDone =>
          \A k \in 1..Len(resp.anomalies) :
             Outside(resp.anomalies[k].value, resp.anomalies[k].expectedRange)
    /\ BatchDone =>
          \A k \in Entries(resp.all, LAMBDA a : a.detectionMethod = "rate_of_change") :
             Outside(resp.all[k].value, resp.all[k].expectedRange)
    /\ LiveDone =>
          \A k \in Entries(resp.anomalies, LAMBDA a : a.detectionMethod = "rate_of_change") :
             Outside(resp.anomalies[k].value, resp.anomalies[k].expectedRange)

====
